---- MODULE Spec2Model ----
(***************************************************************************)
(* Model of bbs/lightbar.py (class Lightbar), the scrollable selector,     *)
(* under specification Spec, and of bbs/input.py (readlineevent), the      *)
(* line editor, under specification EditSpec.                              *)
(*                                                                         *)
(* The model follows the Python text statement by statement.  Reading      *)
(* conventions, all taken from the way the class uses its own members:     *)
(*   - update is modelled as the operation its body and docstring          *)
(*     describe (install a list, None meaning [u'']), called with an       *)
(*     optional list;                                                      *)
(*   - the assignment `self.moved = True` in the two setters is the        *)
(*     assignment to the flag the `moved` property returns (_moved);       *)
(*   - process_keystroke's calls move_up, move_pageup, move_pagedown       *)
(*     are the bodies _up, _pageup, _pagedown, the only definitions of     *)
(*     those commands in the class;                                        *)
(*   - a keystroke is identified by the keyset entry it is found in        *)
(*     ("other" when it is found in none).                                 *)
(* visible_height and visible_bottom come from the window base class       *)
(* (bbs.ansiwin.AnsiWindow), defined outside lightbar.py.                  *)
(* Python integers are unbounded, so no width is modelled.                 *)
(***************************************************************************)
EXTENDS Integers, Sequences, FiniteSets, TLC

\* Longest content list handed to update.
MaxLen == 6

\* Largest window height (visible rows) a selector is built with.
MaxHeight == 3

VARIABLES
    vitem_idx,        \* self._vitem_idx
    vitem_lastidx,    \* self._vitem_lastidx
    vitem_shift,      \* self._vitem_shift
    vitem_lastshift,  \* self._vitem_lastshift
    moved,            \* self._moved
    quit,             \* self._quit
    content,          \* self.content
    visible_height,   \* self.visible_height (window geometry, fixed)
    key,              \* history: the operation performed last
    pre,              \* history: the object's fields before that operation
    width,            \* readlineevent: parameter width
    value,            \* readlineevent: the buffer, a sequence of characters
    hidden,           \* readlineevent: parameter hidden ("" when not set)
    interactive,      \* readlineevent: parameter interactive
    silent,           \* readlineevent: parameter silent
    echoed,           \* the arguments of the echo calls made so far
    pc,               \* readlineevent: "idle", "call", "read" or "return"
    retval,           \* readlineevent: the tuple returned
    initial,          \* history: the value argument of the call
    inputs            \* history: the events read_event has delivered

\* The selector's variables
lbvars == <<vitem_idx, vitem_lastidx, vitem_shift, vitem_lastshift, moved,
            quit, content, visible_height, key, pre>>

\* The line editor's variables
edvars == <<width, value, hidden, interactive, silent, echoed, pc, retval,
            initial, inputs>>

vars == <<lbvars, edvars>>

\* The seven keyset entries of NETHACK_KEYSET, and a key bound to none.
Keys == {"home", "end", "pgup", "pgdown", "up", "down", "exit", "other"}

\* A list of n distinct entries; entry k (Python index k-1) is the number k.
List(n) == [i \in 1..n |-> i]

\* The default argument of update: [u''], one empty entry (written 0).
NoneList == <<0>>

\* The object as a record, so that methods are functions of it.
Self ==
    [vitem_idx |-> vitem_idx, vitem_lastidx |-> vitem_lastidx,
     vitem_shift |-> vitem_shift, vitem_lastshift |-> vitem_lastshift,
     moved |-> moved, quit |-> quit, content |-> content,
     visible_height |-> visible_height]

\* len(self.content)
len(self) == Len(self.content)

\* AnsiWindow.visible_bottom: the number of rows the window draws.
visible_bottom(self) == self.visible_height

\* Lightbar.index
index(self) == self.vitem_shift + self.vitem_idx

\* Lightbar.last_index
last_index(self) == self.vitem_lastshift + self.vitem_lastidx

\* Lightbar.position (getter)
position(self) == <<self.vitem_idx, self.vitem_shift>>

\* vitem_idx setter
set_vitem_idx(self, newvalue) ==
    IF self.vitem_idx # newvalue
    THEN [self EXCEPT !.vitem_lastidx = self.vitem_idx,
                      !.vitem_idx = newvalue,
                      !.moved = TRUE]
    ELSE self

\* vitem_shift setter
set_vitem_shift(self, newvalue) ==
    IF self.vitem_shift # newvalue
    THEN [self EXCEPT !.vitem_lastshift = self.vitem_shift,
                      !.vitem_shift = newvalue,
                      !.moved = TRUE]
    ELSE self

\* Mutant of chk_bounds_last_page: the last page computed without the + 1.
chk_bounds_last_page_off_by_one(self) ==
    IF self.vitem_shift # 0 /\ index(self) + 1 > len(self)
    THEN set_vitem_idx(
             set_vitem_shift(self, len(self) - self.visible_height),
             self.visible_height - 2)
    ELSE self

\* _chk_bounds, first statement: selection beyond the list on a shifted window.
chk_bounds_last_page(self) ==
    IF self.vitem_shift # 0 /\ index(self) + 1 > len(self)
    THEN set_vitem_idx(
             set_vitem_shift(self, len(self) - self.visible_height + 1),
             self.visible_height - 2)
    ELSE self

\* Mutant of chk_bounds_shift_up: an if in place of the while, one line only.
chk_bounds_shift_up_once(self) ==
    IF self.vitem_shift # 0
       /\ self.vitem_shift + self.visible_height - 1 > len(self)
    THEN set_vitem_idx(set_vitem_shift(self, self.vitem_shift - 1),
                       self.vitem_idx + 1)
    ELSE self

\* _chk_bounds, first while loop: shift one line up, keep the lightbar row.
RECURSIVE chk_bounds_shift_up(_)
chk_bounds_shift_up(self) ==
    IF self.vitem_shift # 0
       /\ self.vitem_shift + self.visible_height - 1 > len(self)
    THEN chk_bounds_shift_up(
             set_vitem_idx(set_vitem_shift(self, self.vitem_shift - 1),
                           self.vitem_idx + 1))
    ELSE self

\* _chk_bounds, second while loop: truncate the selection to the last item.
RECURSIVE chk_bounds_truncate(_)
chk_bounds_truncate(self) ==
    IF self.vitem_idx > 0 /\ index(self) >= len(self)
    THEN chk_bounds_truncate(set_vitem_idx(self, self.vitem_idx - 1))
    ELSE self

\* Lightbar._chk_bounds
chk_bounds(self) ==
    chk_bounds_truncate(chk_bounds_shift_up(chk_bounds_last_page(self)))

\* position setter
set_position(self, pos_tuple) ==
    chk_bounds(set_vitem_shift(set_vitem_idx(self, pos_tuple[1]),
                               pos_tuple[2]))

\* Lightbar.update
update(self, unicodelist) ==
    LET s1 == [self EXCEPT !.content = unicodelist]
    IN  set_position(s1, <<s1.vitem_idx, s1.vitem_shift>>)

\* Lightbar.move_down
move_down(self) ==
    IF index(self) >= len(self) THEN self
    ELSE IF self.vitem_idx + 1 < visible_bottom(self)
         THEN set_vitem_idx(self, self.vitem_idx + 1)
         ELSE IF self.vitem_idx < len(self)
              THEN set_vitem_shift(self, self.vitem_shift + 1)
              ELSE self

\* Lightbar._up
up(self) ==
    IF 0 = index(self) THEN self
    ELSE IF self.vitem_idx >= 1
         THEN set_vitem_idx(self, self.vitem_idx - 1)
         ELSE IF self.vitem_shift > 0
              THEN set_vitem_shift(self, self.vitem_shift - 1)
              ELSE self

\* Lightbar.move_home
move_home(self) ==
    IF <<0, 0>> # <<self.vitem_idx, self.vitem_shift>>
    THEN set_vitem_shift(set_vitem_idx(self, 0), 0)
    ELSE self

\* Lightbar.move_end
move_end(self) ==
    IF len(self) < self.visible_height
    THEN set_vitem_idx(self, len(self) - 1)
    ELSE set_vitem_idx(
             set_vitem_shift(self, len(self) - self.visible_height),
             self.visible_height - 1)

\* Lightbar._pagedown
pagedown(self) ==
    IF len(self) < self.visible_height
    THEN set_vitem_idx(self, len(self) - 1)
    ELSE IF self.vitem_shift + self.visible_height
                < len(self) - self.visible_height
         THEN set_vitem_shift(self, self.vitem_shift + self.visible_height)
         ELSE IF self.vitem_shift # len(self) - self.visible_height
              THEN set_vitem_shift(self, len(self) - self.visible_height)
              ELSE move_end(self)

\* Mutant of pageup: a full page is taken off any positive vitem_shift.
pageup_overshoots(self) ==
    LET s1 == IF len(self) < self.visible_height - 1
              THEN set_vitem_idx(self, 0)
              ELSE self
    IN  IF s1.vitem_shift > 0
        THEN set_vitem_shift(s1, s1.vitem_shift - s1.visible_height)
        ELSE move_home(s1)

\* Lightbar._pageup
pageup(self) ==
    LET s1 == IF len(self) < self.visible_height - 1
              THEN set_vitem_idx(self, 0)
              ELSE self
    IN  IF s1.vitem_shift - s1.visible_height > 0
        THEN set_vitem_shift(s1, s1.vitem_shift - s1.visible_height)
        ELSE IF s1.vitem_shift > 0
             THEN set_vitem_shift(s1, 0)
             ELSE move_home(s1)

\* Mutant of process_keystroke: _moved is not cleared on entry.
process_keystroke_keeps_moved(self, k) ==
    CASE k = "home"   -> move_home(self)
      [] k = "end"    -> move_end(self)
      [] k = "pgup"   -> pageup(self)
      [] k = "pgdown" -> pagedown(self)
      [] k = "up"     -> up(self)
      [] k = "down"   -> move_down(self)
      [] k = "exit"   -> [self EXCEPT !.quit = TRUE]
      [] OTHER        -> self

\* Mutant of process_keystroke: _quit is cleared on entry, like _moved.
process_keystroke_resets_quit(self, k) ==
    LET s0 == [self EXCEPT !.moved = FALSE, !.quit = FALSE]
    IN  CASE k = "home"   -> move_home(s0)
          [] k = "end"    -> move_end(s0)
          [] k = "pgup"   -> pageup(s0)
          [] k = "pgdown" -> pagedown(s0)
          [] k = "up"     -> up(s0)
          [] k = "down"   -> move_down(s0)
          [] k = "exit"   -> [s0 EXCEPT !.quit = TRUE]
          [] OTHER        -> s0

\* Lightbar.process_keystroke
process_keystroke(self, k) ==
    LET s0 == [self EXCEPT !.moved = FALSE]
    IN  CASE k = "home"   -> move_home(s0)
          [] k = "end"    -> move_end(s0)
          [] k = "pgup"   -> pageup(s0)
          [] k = "pgdown" -> pagedown(s0)
          [] k = "up"     -> up(s0)
          [] k = "down"   -> move_down(s0)
          [] k = "exit"   -> [s0 EXCEPT !.quit = TRUE]
          [] OTHER        -> s0

\* Lightbar.selection: content[index] with Python's list indexing, where a
\* negative index counts from the end and any other miss is an IndexError.
selection(self) ==
    LET i == index(self)
        n == len(self)
    IN  IF 0 <= i /\ i < n THEN [item |-> self.content[i + 1]]
        ELSE IF -n <= i /\ i < 0 THEN [item |-> self.content[n + i + 1]]
        ELSE [error |-> "IndexError"]

\* Lightbar.refresh_row: one render instruction for window row ypos.
refresh_row(self, ypos) ==
    LET entry == self.vitem_shift + ypos
    IN  IF entry >= len(self) THEN [row |-> ypos, style |-> "fill"]
        ELSE IF entry = index(self)
             THEN [row |-> ypos, style |-> "highlight"]
             ELSE [row |-> ypos, style |-> "lowlight"]

\* Lightbar.refresh
refresh(self) ==
    [y \in 1..visible_bottom(self) |-> refresh_row(self, y - 1)]

\* Lightbar.refresh_quick
refresh_quick(self) ==
    IF self.vitem_lastshift # self.vitem_shift /\ self.vitem_lastshift # -1
    THEN refresh(self)
    ELSE IF self.moved
         THEN IF self.vitem_lastidx # -1
              THEN <<refresh_row(self, self.vitem_lastidx),
                     refresh_row(self, self.vitem_idx)>>
              ELSE <<>>
         ELSE <<>>

\* Make the object's fields those of record r, and record the history.
Assign(r, k) ==
    /\ vitem_idx' = r.vitem_idx
    /\ vitem_lastidx' = r.vitem_lastidx
    /\ vitem_shift' = r.vitem_shift
    /\ vitem_lastshift' = r.vitem_lastshift
    /\ moved' = r.moved
    /\ quit' = r.quit
    /\ content' = r.content
    /\ visible_height' = r.visible_height
    /\ key' = k
    /\ pre' = Self
    /\ UNCHANGED edvars

\* Python's None in the first position of the returned tuple, and a
\* string there: the two are different values whatever the string is.
NoneValue == [none |-> TRUE, str |-> <<>>]
StrValue(v) == [none |-> FALSE, str |-> v]

\* No readlineevent call is in progress.
EditIdle ==
    /\ width = 0
    /\ value = <<>>
    /\ hidden = ""
    /\ interactive = FALSE
    /\ silent = FALSE
    /\ echoed = <<>>
    /\ pc = "idle"
    /\ retval = <<NoneValue, "", "">>
    /\ initial = <<>>
    /\ inputs = <<>>

\* Lightbar.__init__
Init ==
    /\ vitem_idx = 0
    /\ vitem_lastidx = 0
    /\ vitem_shift = 0
    /\ vitem_lastshift = 0
    /\ moved = FALSE
    /\ quit = FALSE
    /\ content = <<>>
    /\ visible_height \in 1..MaxHeight
    /\ key = "init"
    /\ pre = Self
    /\ EditIdle

\* The host replaces the content: update(unicodelist)
Update ==
    \E n \in 0..MaxLen : Assign(update(Self, List(n)), "update")

\* The host calls update() without a list
UpdateNone ==
    Assign(update(Self, NoneList), "update")

\* The host feeds one keystroke: process_keystroke(key)
ProcessKeystroke ==
    \E k \in Keys : Assign(process_keystroke(Self, k), k)

Next == Update \/ UpdateNone \/ ProcessKeystroke

Spec == Init /\ [][Next]_vars

\* ------------------------------------------------------------------------
\* The line editor: bbs/input.py, readlineevent
\* ------------------------------------------------------------------------

\* Largest width argument.
MaxWidth == 2

\* Longest value argument (it may be longer than width).
MaxInitial == 2

\* Most events one call reads before the model stops feeding it.
MaxEvents == 4

\* Characters for which curses.ascii.isprint holds.
PrintableChars == {"a", "b"}

\* A one-character string for which isprint fails (a control character).
ControlChars == {"ctl"}

\* The terminal's integer keycodes: the three readlineevent compares with,
\* and one it does not handle.
KeyCodes == {"KEY_EXIT", "KEY_ENTER", "KEY_BACKSPACE", "KEY_UP"}

\* What read_event can deliver: a keystroke (event 'input') carrying a
\* keycode or a character, or an event of another kind with its payload.
Events ==
    [event : {"input"}, char : KeyCodes \cup PrintableChars \cup ControlChars]
        \cup [event : {"refresh"}, char : {"payload"}]

\* The strings over PrintableChars of length at most n.
Strings(n) == UNION {[1..k -> PrintableChars] : k \in 0..n}

\* The default pad character, and the two settings of hidden.
paddchar == " "
Masks == {"", "*"}

\* curses.ascii.isprint(ord(char))
isprint(char) == char \in PrintableChars

\* isinstance(char, int)
isint(char) == char \in KeyCodes

\* hidden * len(value)
Repeat(c, n) == [i \in 1..n |-> c]

\* The local state of one call as a record.
Ed ==
    [value |-> value, echoed |-> echoed, pc |-> pc, retval |-> retval]

\* echo(text): the text is appended to what the terminal has been sent.
echo(ed, text) == [ed EXCEPT !.echoed = Append(ed.echoed, text)]

\* return (value, event, data)
return(ed, v, event, data) ==
    [ed EXCEPT !.pc = "return", !.retval = <<v, event, data>>]

\* Mutant of echo_initial: the value is echoed as it is, mask or not.
echo_initial_plain(ed, hid) ==
    IF ed.value # <<>> THEN echo(ed, ed.value) ELSE ed

\* readlineevent, lines 18-21: the echo of the value passed in.
echo_initial(ed, hid) ==
    IF hid = "" /\ ed.value # <<>>
    THEN echo(ed, ed.value)
    ELSE IF ed.value # <<>>
         THEN echo(ed, Repeat(hid, Len(ed.value)))
         ELSE ed

\* Mutant of backspace: the erase is echoed but the buffer keeps its end.
backspace_keeps_value(ed) ==
    IF Len(ed.value) > 0
    THEN echo(ed, <<"\\b", paddchar, "\\b">>)
    ELSE ed

\* readlineevent, lines 38-41: KEY_BACKSPACE
backspace(ed) ==
    IF Len(ed.value) > 0
    THEN echo([ed EXCEPT !.value = SubSeq(ed.value, 1, Len(ed.value) - 1)],
              <<"\\b", paddchar, "\\b">>)
    ELSE ed

\* Mutant of character: <= in place of < in the test against width.
character_accepts_at_width(ed, char, w, hid, sil) ==
    IF Len(ed.value) <= w /\ isprint(char)
    THEN echo([ed EXCEPT !.value = Append(ed.value, char)],
              IF hid # "" THEN <<hid>> ELSE <<char>>)
    ELSE IF ~sil
         THEN echo(ed, <<"BEL">>)
         ELSE ed

\* readlineevent, lines 46-54: a character that is not a keycode
character(ed, char, w, hid, sil) ==
    IF Len(ed.value) < w /\ isprint(char)
    THEN echo([ed EXCEPT !.value = Append(ed.value, char)],
              IF hid # "" THEN <<hid>> ELSE <<char>>)
    ELSE IF ~sil
         THEN echo(ed, <<"BEL">>)
         ELSE ed

\* Mutant of loop: KEY_EXIT returns the buffer, as KEY_ENTER does.
loop_exit_returns_value(ed, ev, w, hid, inter, sil) ==
    IF ev.event # "input"
    THEN return(ed, StrValue(ed.value), ev.event, ev.char)
    ELSE IF ev.char = "KEY_EXIT"
    THEN return(ed, StrValue(ed.value), "input", "None")
    ELSE IF ev.char = "KEY_ENTER"
    THEN return(ed, StrValue(ed.value), "input", "\\n")
    ELSE LET e1 == IF ev.char = "KEY_BACKSPACE" THEN backspace(ed)
                   ELSE IF isint(ev.char) THEN ed
                   ELSE character(ed, ev.char, w, hid, sil)
         IN  IF inter
             THEN return(e1, StrValue(e1.value), "input", "None")
             ELSE e1

\* Mutant of loop: the interactive return sits inside the character branch,
\* so a backspace or an unhandled keycode does not return.
loop_interactive_indented(ed, ev, w, hid, inter, sil) ==
    IF ev.event # "input"
    THEN return(ed, StrValue(ed.value), ev.event, ev.char)
    ELSE IF ev.char = "KEY_EXIT"
    THEN return(ed, NoneValue, "input", "None")
    ELSE IF ev.char = "KEY_ENTER"
    THEN return(ed, StrValue(ed.value), "input", "\\n")
    ELSE IF ev.char = "KEY_BACKSPACE" THEN backspace(ed)
    ELSE IF isint(ev.char) THEN ed
    ELSE LET e1 == character(ed, ev.char, w, hid, sil)
         IN  IF inter
             THEN return(e1, StrValue(e1.value), "input", "None")
             ELSE e1

\* readlineevent, lines 24-56: one turn of the while loop on event ev
loop(ed, ev, w, hid, inter, sil) ==
    IF ev.event # "input"
    THEN return(ed, StrValue(ed.value), ev.event, ev.char)
    ELSE IF ev.char = "KEY_EXIT"
    THEN return(ed, NoneValue, "input", "None")
    ELSE IF ev.char = "KEY_ENTER"
    THEN return(ed, StrValue(ed.value), "input", "\\n")
    ELSE LET e1 == IF ev.char = "KEY_BACKSPACE" THEN backspace(ed)
                   ELSE IF isint(ev.char) THEN ed
                   ELSE character(ed, ev.char, w, hid, sil)
         IN  IF inter
             THEN return(e1, StrValue(e1.value), "input", "None")
             ELSE e1

\* Make the call's local state that of record ed.
EditAssign(ed) ==
    /\ value' = ed.value
    /\ echoed' = ed.echoed
    /\ pc' = ed.pc
    /\ retval' = ed.retval

\* A call readlineevent(width, value, hidden, ..., interactive, silent)
\* is about to run; no selector is involved.
EditInit ==
    /\ vitem_idx = 0
    /\ vitem_lastidx = 0
    /\ vitem_shift = 0
    /\ vitem_lastshift = 0
    /\ moved = FALSE
    /\ quit = FALSE
    /\ content = <<>>
    /\ visible_height = 1
    /\ key = "init"
    /\ pre = Self
    /\ width \in 1..MaxWidth
    /\ value \in Strings(MaxInitial)
    /\ hidden \in Masks
    /\ interactive \in BOOLEAN
    /\ silent \in BOOLEAN
    /\ echoed = <<>>
    /\ pc = "call"
    /\ retval = <<NoneValue, "", "">>
    /\ initial = value
    /\ inputs = <<>>

\* The function is entered: the value passed in is echoed (lines 16-21).
EditCall ==
    /\ pc = "call"
    /\ EditAssign([echo_initial(Ed, hidden) EXCEPT !.pc = "read"])
    /\ UNCHANGED <<width, hidden, interactive, silent, initial, inputs>>
    /\ UNCHANGED lbvars

\* One turn of the loop: read_event delivers an event and it is handled.
EditReadEvent ==
    /\ pc = "read"
    /\ Len(inputs) < MaxEvents
    /\ \E ev \in Events :
          /\ EditAssign(loop(Ed, ev, width, hidden, interactive, silent))
          /\ inputs' = Append(inputs, ev)
    /\ UNCHANGED <<width, hidden, interactive, silent, initial>>
    /\ UNCHANGED lbvars

EditNext == EditCall \/ EditReadEvent

EditSpec == EditInit /\ [][EditNext]_vars

\* ------------------------------------------------------------------------
\* Properties
\* ------------------------------------------------------------------------

\* The navigation keystrokes other than exit.
NavKeys == {"home", "end", "pgup", "pgdown", "up", "down"}

\* The selector invariant of the data model, as a predicate of one object:
\* a non-negative offset, a row inside the window, a selection inside the
\* (hence non-empty) content.
InRange(self) ==
    /\ self.vitem_shift >= 0
    /\ 0 <= self.vitem_idx
    /\ self.vitem_idx < self.visible_height
    /\ index(self) < len(self)

\* C1: in every reachable state scroll_offset (vitem_shift) is >= 0 and,
\* when content is non-empty, 0 <= selected_row (vitem_idx) < visible_height
\* and scroll_offset + selected_row < len(content).
C1_PositionInvariant ==
    /\ vitem_shift >= 0
    /\ content # <<>> =>
          /\ 0 <= vitem_idx
          /\ vitem_idx < visible_height
          /\ vitem_shift + vitem_idx < Len(content)

\* C2: replacing the content by a non-empty list of length n <= i, where i
\* is the absolute index before the call, leaves the absolute index n - 1.
C2_ShrinkClamp ==
    (key = "update" /\ content # <<>> /\ Len(content) <= index(pre))
        => index(Self) = Len(content) - 1

\* C2 witness: the selector on the last item (index 5) of 6 with a 3-row
\* window had its content replaced by 2 items and points at index 1.
C2_Witness ==
    /\ key = "update"
    /\ pre.visible_height = 3
    /\ pre.content = List(6)
    /\ index(pre) = 5
    /\ content = List(2)
    /\ index(Self) = 1

\* C3: Down is a no-op on the last item; otherwise it increments
\* selected_row when selected_row + 1 < visible_height and scroll_offset
\* unchanged, else increments scroll_offset and leaves selected_row.
\* Stated for Down commands issued in a state that satisfies the selector
\* invariant (non-empty content, selection in range).
C3_Down ==
    (key = "down" /\ InRange(pre)) =>
        IF index(pre) = len(pre) - 1
        THEN position(Self) = position(pre)
        ELSE IF pre.vitem_idx + 1 < pre.visible_height
             THEN position(Self) = <<pre.vitem_idx + 1, pre.vitem_shift>>
             ELSE position(Self) = <<pre.vitem_idx, pre.vitem_shift + 1>>

\* move_down applied n times
RECURSIVE move_down_times(_, _)
move_down_times(self, n) ==
    IF n = 0 THEN self ELSE move_down_times(move_down(self), n - 1)

\* C4: from any reachable state with non-empty content, at most len(content)
\* Down commands reach the last item, and every Down after that changes
\* neither selected_row nor scroll_offset.
C4_DownReachesLast ==
    content # <<>> =>
        \E n \in 0..Len(content) :
            LET s == move_down_times(Self, n)
            IN  /\ index(s) = len(s) - 1
                /\ position(move_down(s)) = position(s)

\* C5: on empty content every navigation command other than exit leaves
\* selected_row and scroll_offset unchanged.
C5_EmptyNoOp ==
    (key \in NavKeys /\ pre.content = <<>>)
        => position(Self) = position(pre)

\* C6: End on non-empty content gives (len - 1, 0) when the content fits in
\* one window, else (visible_height - 1, len - visible_height); the absolute
\* index afterwards is len - 1.
C6_End ==
    (key = "end" /\ pre.content # <<>>) =>
        /\ position(Self) =
              IF len(pre) <= pre.visible_height
              THEN <<len(pre) - 1, 0>>
              ELSE <<pre.visible_height - 1, len(pre) - pre.visible_height>>
        /\ index(Self) = len(Self) - 1

\* C7: refresh_quick after a keystroke emits nothing when the keystroke did
\* not move the selection, the full-window render when it changed
\* scroll_offset, and otherwise exactly two rows: the previously selected
\* row redrawn normal, then the newly selected row redrawn highlighted.
\* Stated for keystrokes between two states that satisfy the selector
\* invariant.
C7_RefreshQuick ==
    (key \in Keys /\ InRange(pre) /\ InRange(Self)) =>
        IF position(Self) = position(pre)
        THEN refresh_quick(Self) = <<>>
        ELSE IF vitem_shift # pre.vitem_shift
             THEN refresh_quick(Self) = refresh(Self)
             ELSE refresh_quick(Self) =
                      <<[row |-> pre.vitem_idx, style |-> "lowlight"],
                        [row |-> vitem_idx, style |-> "highlight"]>>

C9_QuitIffLastExit ==
    key \in Keys =>
        /\ quit <=> key = "exit"
        /\ key = "exit" => position(Self) = position(pre)

\* C9 amended: quit is false after construction, is set by an exit
\* keystroke, which changes neither selected_row nor scroll_offset, and is
\* never cleared afterwards: after any keystroke quit is true iff that
\* keystroke was exit or quit was already true, and update leaves it alone.
C9_QuitSticky ==
    /\ key = "init" => ~quit
    /\ key = "update" => quit = pre.quit
    /\ key \in Keys =>
          /\ quit <=> (pre.quit \/ key = "exit")
          /\ key = "exit" => position(Self) = position(pre)

\* C9 witness: a non-exit keystroke processed after an exit keystroke.
C9_Witness ==
    /\ key \in NavKeys
    /\ pre.quit
    /\ quit
    /\ position(Self) # position(pre)

\* C10: selection returns the item at the absolute index whenever content
\* is non-empty, and fails (IndexError) exactly when content is empty.
C10_Selection ==
    /\ content # <<>> =>
          /\ 0 <= index(Self)
          /\ index(Self) < Len(content)
          /\ selection(Self) = [item |-> content[index(Self) + 1]]
    /\ content = <<>> => selection(Self) = [error |-> "IndexError"]

\* C11: Up is a no-op on absolute index 0; otherwise it decrements
\* selected_row when selected_row > 0 and leaves scroll_offset, else it
\* decrements scroll_offset and leaves selected_row; so from an absolute
\* index > 0 Up decreases the absolute index by exactly one.
C11_Up ==
    key = "up" =>
        /\ IF index(pre) = 0
           THEN position(Self) = position(pre)
           ELSE IF pre.vitem_idx > 0
                THEN position(Self) = <<pre.vitem_idx - 1, pre.vitem_shift>>
                ELSE position(Self) = <<pre.vitem_idx, pre.vitem_shift - 1>>
        /\ index(pre) > 0 => index(Self) = index(pre) - 1

\* C12: replace_content(X) twice gives the same (selected_row,
\* scroll_offset) as replace_content(X) once: after any update, a second
\* update with the same list changes neither.
C12_UpdateTwice ==
    key = "update" => position(update(Self, content)) = position(Self)

\* C12 witness: an update that had to re-normalize the position (the window
\* was pulled back more than one line), after which a second update with
\* the same list changes nothing.
C12_Witness ==
    /\ key = "update"
    /\ pre.vitem_shift - vitem_shift >= 2
    /\ vitem_idx # pre.vitem_idx
    /\ position(update(Self, content)) = position(Self)

\* C17: Page down with len(content) > visible_height advances
\* scroll_offset by visible_height when another full page exists below
\* (scroll_offset + 2 * visible_height <= len), else snaps it to
\* len - visible_height when it is not there yet, else behaves as End; so
\* scroll_offset never exceeds len - visible_height afterwards; and when
\* the content fits in one window Page down selects the last item.
\* Stated for Page down commands issued in a state that satisfies the
\* selector invariant.
C17_PageDown ==
    (key = "pgdown" /\ InRange(pre)) =>
        LET n == len(pre)
            h == pre.visible_height
        IN  /\ n > h =>
                  /\ IF pre.vitem_shift + 2 * h <= n
                     THEN vitem_shift = pre.vitem_shift + h
                     ELSE IF pre.vitem_shift # n - h
                          THEN vitem_shift = n - h
                          ELSE position(Self) = position(move_end(pre))
                  /\ vitem_shift <= n - h
            /\ (n <= h /\ n > 0) => index(Self) = n - 1

\* C18: Page up decreases scroll_offset by visible_height when
\* scroll_offset - visible_height > 0, else sets it to 0 when it is > 0,
\* else behaves as Home and gives (0, 0); scroll_offset is never negative
\* after Page up.
C18_PageUp ==
    key = "pgup" =>
        /\ IF pre.vitem_shift - pre.visible_height > 0
           THEN vitem_shift = pre.vitem_shift - pre.visible_height
           ELSE IF pre.vitem_shift > 0
                THEN vitem_shift = 0
                ELSE position(Self) = <<0, 0>>
        /\ vitem_shift >= 0

\* C18 witness: a Page up on a window scrolled further than one page, which
\* retreats by exactly visible_height and stays scrolled.
C18_Witness ==
    /\ key = "pgup"
    /\ pre.vitem_shift - pre.visible_height > 0
    /\ vitem_shift = pre.vitem_shift - pre.visible_height
    /\ pre.visible_height >= 2

\* C19: after a navigation command that moved the selection, last_index
\* equals the absolute index the selector had just before that command.
\* Stated for commands between two states that satisfy the selector
\* invariant.
C19_LastIndex ==
    (key \in NavKeys /\ moved /\ InRange(pre) /\ InRange(Self))
        => last_index(Self) = index(pre)

\* ------------------------------------------------------------------------
\* Properties of the line editor (specification EditSpec)
\* ------------------------------------------------------------------------

\* The last event delivered, when there is one.
LastInput == inputs[Len(inputs)]

\* The events delivered before the last one.
EarlierInputs == SubSeq(inputs, 1, Len(inputs) - 1)

\* The buffer the claim C13 describes: keystrokes applied in order to v, a
\* printable character appended while the buffer is shorter than w, a
\* backspace removing the last character if any, all else ignored.
RECURSIVE applied(_, _, _)
applied(v, evs, w) ==
    IF evs = <<>> THEN v
    ELSE LET c == Head(evs).char
             v1 == IF c \in PrintableChars
                   THEN (IF Len(v) < w THEN Append(v, c) ELSE v)
                   ELSE IF c = "KEY_BACKSPACE" /\ Len(v) > 0
                        THEN SubSeq(v, 1, Len(v) - 1)
                        ELSE v
         IN  applied(v1, Tail(evs), w)

\* C13: a non-interactive edit that ends on the first Enter returns
\* (v, input, newline), v being the initial value with the keystrokes
\* before the Enter applied in order.
C13_EnterResult ==
    (pc = "return" /\ ~interactive /\ LastInput.char = "KEY_ENTER") =>
        retval = <<StrValue(applied(initial, EarlierInputs, width)),
                   "input", "\\n">>

\* C13 witness: 'a', backspace, 'b', Enter on an empty buffer returns "b".
C13_Witness ==
    /\ pc = "return"
    /\ ~interactive
    /\ initial = <<>>
    /\ Len(inputs) = 4
    /\ [i \in 1..4 |-> inputs[i].char]
           = <<"a", "KEY_BACKSPACE", "b", "KEY_ENTER">>
    /\ retval = <<StrValue(<<"b">>), "input", "\\n">>

\* C14: a printable character received while the buffer holds width
\* characters is not appended, and on that keystroke BEL is echoed when
\* silent is false and nothing when silent is true; the buffer never grows
\* beyond width when the initial value is no longer than width.
C14_Capacity ==
    /\ [](Len(initial) <= width => Len(value) <= width)
    /\ [][(/\ inputs' # inputs
           /\ inputs'[Len(inputs')].char \in PrintableChars
           /\ Len(value) = width)
          => /\ value' = value
             /\ echoed' = IF silent THEN echoed
                          ELSE Append(echoed, <<"BEL">>)]_vars

\* C14 witness: width 2, 'a', 'b' accepted, a third printable character
\* refused with a BEL.
C14_Witness ==
    /\ width = 2
    /\ ~silent
    /\ initial = <<>>
    /\ Len(inputs) = 3
    /\ LastInput.char \in PrintableChars
    /\ value = <<"a", "b">>
    /\ echoed[Len(echoed)] = <<"BEL">>

\* The number of printable keystrokes of evs the editor accepts, starting
\* from a buffer of n characters with width w.
RECURSIVE accepted(_, _, _)
accepted(n, evs, w) ==
    IF evs = <<>> THEN 0
    ELSE LET c == Head(evs).char
         IN  IF c \in PrintableChars /\ n < w
             THEN 1 + accepted(n + 1, Tail(evs), w)
             ELSE IF c = "KEY_BACKSPACE" /\ n > 0
                  THEN accepted(n - 1, Tail(evs), w)
                  ELSE accepted(n, Tail(evs), w)

\* The number of characters c in the echo calls of log.
RECURSIVE count(_, _)
count(log, c) ==
    IF log = <<>> THEN 0
    ELSE Cardinality({j \in 1..Len(Head(log)) : Head(log)[j] = c})
             + count(Tail(log), c)

\* The characters of the initial value and of the keystrokes typed.
Typed ==
    {initial[i] : i \in 1..Len(initial)}
        \cup {inputs[i].char : i \in {j \in 1..Len(inputs) :
                  inputs[j].event = "input" /\ ~isint(inputs[j].char)}}

\* C15: with a mask (hidden) set, the echoes for the initial value and for
\* each accepted printable keystroke are the mask character, one per
\* character, and no echo contains a character of the initial value or of
\* the typed input (mask and pad character being no typed characters).
C15_MaskedEcho ==
    (hidden # "" /\ pc # "call") =>
        /\ count(echoed, hidden)
               = Len(initial) + accepted(Len(initial), inputs, width)
        /\ \A i \in 1..Len(echoed) : \A j \in 1..Len(echoed[i]) :
               echoed[i][j] \notin Typed

\* C15 witness: mask '*', empty initial value, 'a' and 'b' typed: two mask
\* echoes and nothing else.
C15_Witness ==
    /\ hidden = "*"
    /\ initial = <<>>
    /\ value = <<"a", "b">>
    /\ Len(inputs) = 2
    /\ echoed = << <<"*">>, <<"*">> >>

\* C16: an exit keystroke returns (None, input, None) whatever the buffer
\* holds, interactive or not, while Enter returns the buffer as a string,
\* the empty one included, which is not None.
C16_Cancel ==
    (pc = "return" /\ LastInput.event = "input") =>
        /\ LastInput.char = "KEY_EXIT"
               => retval = <<NoneValue, "input", "None">>
        /\ LastInput.char = "KEY_ENTER"
               => /\ retval[1] = StrValue(value)
                  /\ retval[1] # NoneValue

\* C16 witness: exit in interactive mode on a non-empty buffer.
C16_Witness ==
    /\ pc = "return"
    /\ interactive
    /\ value # <<>>
    /\ LastInput.char = "KEY_EXIT"
    /\ retval = <<NoneValue, "input", "None">>

\* The events on which every call returns.
Returning(ev) ==
    ev.event # "input" \/ ev.char \in {"KEY_ENTER", "KEY_EXIT"}

\* C20: with interactive set the call returns after exactly one event,
\* whatever it is; without it the call returns on Enter, on exit and on a
\* non-keyboard event, which is passed through with its kind, its payload
\* and the buffer so far, and on no other keystroke.
C20_ReturnPoints ==
    /\ interactive => (Len(inputs) <= 1 /\ (Len(inputs) = 1 => pc = "return"))
    /\ (~interactive /\ inputs # <<>>) =>
          /\ pc = "return" <=> Returning(LastInput)
          /\ \A i \in 1..(Len(inputs) - 1) : ~Returning(inputs[i])
    /\ (pc = "return" /\ LastInput.event # "input") =>
          retval = <<StrValue(value), LastInput.event, LastInput.char>>

\* C20 witness: a non-interactive call that took 'a' and a backspace
\* without returning, then passed a non-keyboard event through.
C20_Witness ==
    /\ ~interactive
    /\ pc = "return"
    /\ Len(inputs) = 3
    /\ inputs[1].char \in PrintableChars
    /\ inputs[2].char = "KEY_BACKSPACE"
    /\ LastInput.event = "refresh"
    /\ retval = <<StrValue(value), "refresh", "payload">>

====
